---- MODULE Spec2Model ----
(***************************************************************************)
(* BookManager: the text-analysis caching subsystem.                       *)
(*                                                                         *)
(*   book_manager/analysis/text_analysis.py                                *)
(*     LRUCache       an OrderedDict with get / put / clear                *)
(*     TextAnalyzer   get_file_hash, count_words, get_word_frequency,      *)
(*                    extract_todos, analyze_scene                         *)
(*   book_manager/utils/config_loader.py   load_config, get_config         *)
(*   book_manager/compile/compiler.py      compile_manuscript,             *)
(*                                         batch_compile                   *)
(*   book_manager/main.py                  BookManager.analyze_scenes,     *)
(*                                         compile_manuscript, run         *)
(*                                                                         *)
(* A worker executes one call at a time; every Python statement that       *)
(* touches the cache or the file system is one step, so that the steps of  *)
(* several workers, and of the environment that rewrites files, can        *)
(* interleave exactly where the interpreter can switch threads.            *)
(***************************************************************************)
EXTENDS Integers, Sequences, FiniteSets, TLC

(***************************************************************************)
(* Bounds of the model.                                                    *)
(***************************************************************************)
\* largest configured cache_size explored (validate_config accepts 0)
MaxCap == 2
\* the configured max_file_size, scaled down to a few bytes
MaxFileSize == 4
\* configuration dictionaries made in a run
MaxConfigs == 3
\* scenes of a structure
MaxScenes == 3

(***************************************************************************)
(* Bytes, characters, decoding.                                            *)
(***************************************************************************)
\* Bytes are integers; characters are one-character strings.
AsciiBytes == {10, 32, 45, 58, 68, 70, 79, 84, 97, 100, 102, 111, 116, 120}

Chr(b) ==
    CASE b = 10 -> "\n" [] b = 32 -> " " [] b = 45 -> "-" [] b = 58 -> ":"
      [] b = 68 -> "D" [] b = 70 -> "F" [] b = 79 -> "O" [] b = 84 -> "T"
      [] b = 97 -> "a" [] b = 100 -> "d" [] b = 102 -> "f" [] b = 111 -> "o"
      [] b = 116 -> "t" [] b = 120 -> "x"

\* bytes.decode('utf-8') on ASCII and on lone continuation bytes (0x80..0xBF):
\* a byte >= 0x80 that starts no valid sequence raises UnicodeDecodeError.
Decodable(data) == \A i \in 1..Len(data) : data[i] < 128

Decode(data) == [i \in 1..Len(data) |-> Chr(data[i])]

UpperCase == {"D", "F", "O", "T"}
LowerCase == {"a", "c", "d", "e", "f", "h", "i", "k", "n", "o", "q", "t", "u", "x"}
\* \w : letters, digits, underscore
IsWordChar(c) == c \in UpperCase \cup LowerCase
\* \s
IsSpace(c) == c \in {" ", "\n"}

LowerChar(c) ==
    CASE c = "D" -> "d" [] c = "F" -> "f" [] c = "O" -> "o" [] c = "T" -> "t"
      [] OTHER -> c

\* str.lower()
Lower(text) == [i \in 1..Len(text) |-> LowerChar(text[i])]

(***************************************************************************)
(* Tokenising: re.findall(r'\b\w+\b', text) is the list of maximal runs of *)
(* word characters, left to right.                                         *)
(***************************************************************************)
RECURSIVE FindWords(_, _, _)
\* text from position i on, cur the run of word characters being read
FindWords(text, i, cur) ==
    IF i > Len(text)
    THEN IF cur = <<>> THEN <<>> ELSE <<cur>>
    ELSE IF IsWordChar(text[i])
         THEN FindWords(text, i + 1, Append(cur, text[i]))
         ELSE (IF cur = <<>> THEN <<>> ELSE <<cur>>) \o FindWords(text, i + 1, <<>>)

\* TextAnalyzer.count_words
count_words(text) == Len(FindWords(text, 1, <<>>))

\* config['stopwords'] of the test configuration: the, and
the_ == <<"t", "h", "e">>
and_ == <<"a", "n", "d">>
Stopwords == {the_, and_}
\* config['top_words_count']
TopWordsCount == 5

\* Counter(filtered_words) as the list of <<word, count>> in the order the
\* words were first met (a dict keeps insertion order).
RECURSIVE CounterOf(_, _)
CounterOf(words, acc) ==
    IF words = <<>> THEN acc
    ELSE LET w == Head(words)
             at == {i \in 1..Len(acc) : acc[i][1] = w}
         IN  IF at = {}
             THEN CounterOf(Tail(words), Append(acc, <<w, 1>>))
             ELSE LET i == CHOOSE j \in at : TRUE
                  IN  CounterOf(Tail(words), [acc EXCEPT ![i] = <<w, acc[i][2] + 1>>])

\* a filter that forgets the length
KeepWordAnyLength(w) == w \notin Stopwords

\* word not in stopwords and len(word) >= 3
KeepWord(w) == w \notin Stopwords /\ Len(w) >= 3

\* TextAnalyzer.get_word_frequency
get_word_frequency(text) ==
    CounterOf(SelectSeq(FindWords(Lower(text), 1, <<>>), KeepWord), <<>>)

\* Counter.most_common(n): sorted by count, largest first; the sort is stable,
\* so equal counts stay in insertion order.  Insert one pair into a sorted list.
RECURSIVE InsertByCountUnstable(_, _)
\* an insertion that puts a pair before the pairs of equal count
InsertByCountUnstable(sorted, p) ==
    IF sorted = <<>> THEN <<p>>
    ELSE IF Head(sorted)[2] > p[2]
         THEN <<Head(sorted)>> \o InsertByCountUnstable(Tail(sorted), p)
         ELSE <<p>> \o sorted

RECURSIVE InsertByCount(_, _)
InsertByCount(sorted, p) ==
    IF sorted = <<>> THEN <<p>>
    ELSE IF Head(sorted)[2] >= p[2]
         THEN <<Head(sorted)>> \o InsertByCount(Tail(sorted), p)
         ELSE <<p>> \o sorted

RECURSIVE SortByCount(_, _)
SortByCount(pairs, sorted) ==
    IF pairs = <<>> THEN sorted
    ELSE SortByCount(Tail(pairs), InsertByCount(sorted, Head(pairs)))

most_common(freq, n) ==
    LET s == SortByCount(freq, <<>>)
    IN  IF n >= Len(s) THEN s ELSE SubSeq(s, 1, n)

(***************************************************************************)
(* TODO extraction: re.search(r"TODO[:\-\s]*(.+)", line, re.IGNORECASE) on *)
(* every line of text.splitlines().                                        *)
(***************************************************************************)
\* str.splitlines() for "\n": a trailing line break opens no further line.
RECURSIVE SplitLines(_, _, _)
SplitLines(text, i, cur) ==
    IF i > Len(text)
    THEN IF cur = <<>> THEN <<>> ELSE <<cur>>
    ELSE IF text[i] = "\n"
         THEN <<cur>> \o SplitLines(text, i + 1, <<>>)
         ELSE SplitLines(text, i + 1, Append(cur, text[i]))

todo_ == <<"t", "o", "d", "o">>
\* [:\-\s]
IsTodoSep(c) == c \in {":", "-"} \/ IsSpace(c)

\* the positions where the marker matches and at least one character follows,
\* which is what (.+) needs once [:\-\s]* has given back what it took
TodoStarts(line) ==
    {i \in 1..Len(line) : i + 4 <= Len(line) /\ Lower(SubSeq(line, i, i + 3)) = todo_}

RECURSIVE SkipSeps(_)
SkipSeps(s) == IF s # <<>> /\ IsTodoSep(Head(s)) THEN SkipSeps(Tail(s)) ELSE s

\* match.group(1): the star is greedy, and gives back one character when it
\* has eaten the whole rest of the line
TodoGroup(line, i) ==
    LET rest == SubSeq(line, i + 4, Len(line))
        after == SkipSeps(rest)
    IN  IF after # <<>> THEN after ELSE <<rest[Len(rest)]>>

RECURSIVE StripLeft(_)
StripLeft(s) == IF s # <<>> /\ IsSpace(Head(s)) THEN StripLeft(Tail(s)) ELSE s
RECURSIVE StripRight(_)
StripRight(s) ==
    IF s # <<>> /\ IsSpace(s[Len(s)]) THEN StripRight(SubSeq(s, 1, Len(s) - 1)) ELSE s
\* str.strip()
Strip(s) == StripRight(StripLeft(s))

RECURSIVE TodosOfLines(_)
TodosOfLines(lines) ==
    IF lines = <<>> THEN <<>>
    ELSE LET line == Head(lines)
             starts == TodoStarts(line)
             first == CHOOSE i \in starts : \A j \in starts : i <= j
             task == Strip(TodoGroup(line, first))
         IN  (IF starts # {} /\ task # <<>> THEN <<task>> ELSE <<>>)
                 \o TodosOfLines(Tail(lines))

\* TextAnalyzer.extract_todos
extract_todos(text) == TodosOfLines(SplitLines(text, 1, <<>>))

(***************************************************************************)
(* The analysis of a text: the dictionary analyze_scene builds.            *)
(***************************************************************************)
Firsts(pairs) == [i \in 1..Len(pairs) |-> pairs[i][1]]

\* dict(freq): the mapping word -> count, without the order
DictOf(pairs) ==
    [w \in {pairs[i][1] : i \in 1..Len(pairs)} |->
        (CHOOSE p \in {pairs[i] : i \in 1..Len(pairs)} : p[1] = w)[2]]

\* the dictionary built from a text and the Counter get_word_frequency gave
ResultOf(text, freq) ==
    [word_count |-> count_words(text),
     top_words  |-> Firsts(most_common(freq, TopWordsCount)),
     todos      |-> extract_todos(text),
     frequency  |-> DictOf(freq)]

Analysis(text) == ResultOf(text, get_word_frequency(text))

(***************************************************************************)
(* Files.  A file is missing, or holds bytes; opening it may fail          *)
(* ("noread"), or only mapping it into memory may ("nommap").              *)
(***************************************************************************)
Files == {"f1", "f2"}

Empty == <<>>
\* "fox"
Fox == <<102, 111, 120>>
\* "x" * max_file_size and "x" * (max_file_size + 1)
AtLimit == [i \in 1..MaxFileSize |-> 120]
OverLimit == [i \in 1..MaxFileSize + 1 |-> 120]
\* b'\x80\x81'
Bad == <<128, 129>>
\* b'\x80' * (max_file_size + 1)
BadOverLimit == [i \in 1..MaxFileSize + 1 |-> 128]

Missing == [exists |-> FALSE, data |-> Empty, io |-> "ok"]
Holds(d, io) == [exists |-> TRUE, data |-> d, io |-> io]

FileStates ==
    {Missing} \cup {Holds(d, "ok") : d \in {Empty, Fox, AtLimit, OverLimit, Bad, BadOverLimit}}
              \cup {Holds(Fox, "nommap"), Holds(Fox, "noread")}

Contents == {Empty, Fox, AtLimit, OverLimit, Bad, BadOverLimit}

\* a digest that forgets the content (a plausible slip: hashing before reading)
Sha256OfNothing(data) == [sha256 |-> Empty]

\* hashlib.sha256(...).hexdigest(): one digest per content, no collisions
Sha256(data) == [sha256 |-> data]

\* the comparison of line 142 with >= for >
ExceedsLimitInclusive(size) == size >= MaxFileSize

\* line 142: file_path.stat().st_size > max_size
ExceedsLimit(size) == size > MaxFileSize

\* TextAnalyzer.get_file_hash: open, mmap, digest.  open() of a missing or
\* unreadable file and a failing mmap raise OSError, re-raised as IOError;
\* mmap refuses an empty file with ValueError, which is not converted.
get_file_hash(s) ==
    IF ~s.exists \/ s.io = "noread" THEN [ok |-> FALSE, err |-> "IOError", digest |-> Sha256(Empty)]
    ELSE IF s.data = Empty THEN [ok |-> FALSE, err |-> "ValueError", digest |-> Sha256(Empty)]
    ELSE IF s.io = "nommap" THEN [ok |-> FALSE, err |-> "IOError", digest |-> Sha256(Empty)]
    ELSE [ok |-> TRUE, err |-> "", digest |-> Sha256(s.data)]

\* a read that drops the bytes that do not decode: errors='ignore'
ReadTextLenient(s) ==
    IF ~s.exists \/ s.io = "noread" THEN [ok |-> FALSE, err |-> "IOError", text |-> <<>>]
    ELSE [ok |-> TRUE, err |-> "", text |-> Decode(SelectSeq(s.data, LAMBDA b : b < 128))]

\* Path.read_text(encoding='utf-8')
read_text(s) ==
    IF ~s.exists \/ s.io = "noread" THEN [ok |-> FALSE, err |-> "IOError", text |-> <<>>]
    ELSE IF ~Decodable(s.data) THEN [ok |-> FALSE, err |-> "UnicodeDecodeError", text |-> <<>>]
    ELSE [ok |-> TRUE, err |-> "", text |-> Decode(s.data)]

(***************************************************************************)
(* LRUCache: an OrderedDict, here the list of its items, oldest first.     *)
(***************************************************************************)
Keys == {"key1", "key2", "key3", "key4"}
Values == {[value |-> 1], [value |-> 2]}

KeysOf(c) == {c[i].key : i \in 1..Len(c)}
\* key in self
Has(c, k) == k \in KeysOf(c)
IndexOf(c, k) == CHOOSE i \in 1..Len(c) : c[i].key = k
\* self[key]
ValueOf(c, k) == c[IndexOf(c, k)].val
Without(c, k) == SelectSeq(c, LAMBDA e : e.key # k)
\* a move_to_end that leaves the order as it is
MoveToEndForgotten(c, k) == c
\* a move_to_end to the wrong end: self.move_to_end(key, last=False)
MoveToFront(c, k) == <<c[IndexOf(c, k)]>> \o Without(c, k)

\* self.move_to_end(key), for a key that is present
move_to_end(c, k) == Append(Without(c, k), c[IndexOf(c, k)])
\* an assignment that leaves the value of a present key as it is
SetItemKeepsOld(c, k, v) == IF Has(c, k) THEN c ELSE Append(c, [key |-> k, val |-> v])

\* a popitem that removes nothing
PopItemKeeps(c) == c

\* self[key] = value: a present key keeps its place, a new one goes last
setitem(c, k, v) ==
    IF Has(c, k) THEN [c EXCEPT ![IndexOf(c, k)].val = v]
    ELSE Append(c, [key |-> k, val |-> v])
\* self.popitem(last=False), for a dictionary that is not empty
popitem_first(c) == Tail(c)
\* the comparison of line 52 one too late, and one too early
OverCapacityLate(c, cap) == Len(c) > cap + 1
OverCapacityEarly(c, cap) == Len(c) >= cap

\* len(self) > self.capacity
OverCapacity(c, cap) == Len(c) > cap

(***************************************************************************)
(* State.                                                                  *)
(***************************************************************************)
VARIABLES
    capacity,   \* LRUCache.capacity, set by the constructor
    cache,      \* the items of the analyzer's LRUCache, oldest first
    fs,         \* the state of every file
    wk,         \* every worker's call in progress: position and locals
    recency,    \* observer: the keys present, by time of last access
    scen,       \* observer: how far the calls so far follow Script
    memo,       \* observer: the file and result of the cached call just
                \* returned, until the file is touched or another call returns
    global_analyzer,    \* _global_analyzer: 0 for None, or the number of a
                        \* TextAnalyzer instance
    made,               \* how many TextAnalyzer instances get_analyzer has made
    held,               \* the keys whose cached dictionary the caller holds a
                        \* reference to
    config_cache,       \* _CONFIG_CACHE: 0 for None, or the number of a dictionary
    configs,            \* the configuration dictionaries made so far
    self_config,        \* TextAnalyzer.config: the number of a dictionary
    batch,              \* BookManager.analyze_scenes: its scenes and progress
    txt,                \* a text handed to the analysis functions, what they
                        \* returned, and the Counters the caller still holds
    word_memo,          \* the lru_cache of get_word_frequency: the Counter
                        \* stored for each text
    comp,               \* batch_compile: its arguments, loop index, files and
                        \* the outcome of every attempt so far
    run                 \* BookManager.run: its flags, position and the steps
                        \* performed so far

corevars == <<capacity, cache, fs, recency, scen, memo>>
configvars == <<config_cache, configs, self_config>>
\* the state of batch_compile and of BookManager.run
appvars == <<comp, run>>
\* the state of the callers of the text functions, and appvars
latevars == <<txt, word_memo, appvars>>
\* the state of the process outside the analyzer's cache
procvars == <<global_analyzer, made, held, configvars, batch, latevars>>
\* everything but latevars
libvars == <<corevars, wk, global_analyzer, made, held, configvars, batch>>

vars == <<capacity, cache, fs, wk, recency, scen, memo, procvars>>

Workers == {"w1", "w2"}
\* the one caller of the sequential specifications
Client == "w1"

NoKey == ""
\* Python's None
None == [none |-> TRUE]
\* bool(value) of a dictionary or None
Truthy(v) == v # None /\ DOMAIN v # {}

Pending == [kind |-> "pending", err |-> "", val |-> None]
Returned(v) == [kind |-> "value", err |-> "", val |-> v]
ReturnedNone == [kind |-> "none", err |-> "", val |-> None]
Raised(e) == [kind |-> "raise", err |-> e, val |-> None]

TooLarge == "ValueError: File too large"
EmptyMmap == "ValueError: cannot mmap an empty file"

NoMemo == [file |-> "none", val |-> None]

\* _DEFAULT_CONFIG, the keys the analyzer reads; the bounds stand for the
\* default cache_size and max_file_size
DefaultConfig ==
    [stopwords |-> Stopwords, top_words_count |-> TopWordsCount, cache_size |-> MaxCap,
     max_file_size |-> MaxFileSize, encoding |-> "utf-8"]

\* config = _DEFAULT_CONFIG.copy(); config.update(data)
Merged(data) ==
    [k \in DOMAIN DefaultConfig |-> IF k \in DOMAIN data THEN data[k] ELSE DefaultConfig[k]]

\* batch_compile not called
NoCompile ==
    [pc |-> "idle", retries |-> 0, empty |-> FALSE, formats |-> <<>>, attempt |-> 0,
     created |-> <<>>, log |-> <<>>, out |-> Pending]

\* BookManager.run not called
NoRun ==
    [pc |-> "idle", report_only |-> FALSE, no_compile |-> FALSE, formats |-> <<>>,
     trace |-> <<>>, out |-> Pending]

\* no text handed over
NoText == [text |-> <<>>, out |-> ReturnedNone, counters |-> {}]

\* no analyze_scenes in progress
NoBatch ==
    [scenes |-> <<>>, force |-> FALSE, pos |-> 1, results |-> <<>>, merged |-> <<>>,
     out |-> ReturnedNone]

IdleWorker ==
    [pc |-> "idle", prog |-> "none", file |-> "none", use_cache |-> FALSE,
     key |-> NoKey, val |-> None, text |-> <<>>, out |-> Pending,
     hashErr |-> FALSE, didRead |-> FALSE, didGet |-> FALSE, didPut |-> FALSE,
     cache0 |-> <<>>]

\* the script of the eviction example: put A, put B, put C, get B, put D
Script ==
    << [prog |-> "put", key |-> "key1"], [prog |-> "put", key |-> "key2"],
       [prog |-> "put", key |-> "key3"], [prog |-> "get", key |-> "key2"],
       [prog |-> "put", key |-> "key4"] >>

Init0 ==
    /\ capacity \in 0..MaxCap
    /\ cache = <<>>
    /\ wk = [w \in Workers |-> IdleWorker]
    /\ recency = <<>>
    /\ scen = 0
    /\ memo = NoMemo
    /\ global_analyzer = 0
    /\ made = 0
    /\ held = {}
    /\ config_cache = 1
    /\ configs = <<Merged([cache_size |-> capacity])>>
    /\ self_config = 1
    /\ batch = NoBatch
    /\ txt = NoText
    /\ word_memo = {}
    /\ comp = NoCompile
    /\ run = NoRun

(***************************************************************************)
(* Calls.  Call* are made by the single client, whose observer remembers   *)
(* the cache as it was when the call began; Spawn* are the calls of        *)
(* concurrent workers, for which "the cache before the call" means nothing.*)
(***************************************************************************)
Enter(w, prog, pc, k, v, f, uc, c0) ==
    /\ wk[w].pc = "idle"
    /\ wk' = [wk EXCEPT ![w] =
                [IdleWorker EXCEPT !.pc = pc, !.prog = prog, !.key = k, !.val = v,
                                   !.file = f, !.use_cache = uc, !.cache0 = c0]]
    /\ UNCHANGED <<capacity, cache, fs, recency, scen, memo, procvars>>

CallGet(w, k) == Enter(w, "get", "get_in", k, None, "none", FALSE, cache)
CallPut(w, k, v) == Enter(w, "put", "put_in", k, v, "none", FALSE, cache)
CallClear(w) == Enter(w, "clear", "clear", NoKey, None, "none", FALSE, cache)
CallAnalyze(w, f, uc) == Enter(w, "analyze", "exists", NoKey, None, f, uc, cache)

SpawnGet(w, k) == Enter(w, "get", "get_in", k, None, "none", FALSE, <<>>)
SpawnPut(w, k, v) == Enter(w, "put", "put_in", k, v, "none", FALSE, <<>>)
SpawnClear(w) == Enter(w, "clear", "clear", NoKey, None, "none", FALSE, <<>>)
SpawnAnalyze(w, f, uc) == Enter(w, "analyze", "exists", NoKey, None, f, uc, <<>>)

Done(r, out) == [r EXCEPT !.pc = "done", !.out = out]

(***************************************************************************)
(* LRUCache.get, statement by statement.                                   *)
(***************************************************************************)
\* what the caller of get does with the value: analyze_scene line 149-150
\* returns a truthy value and goes on to read the file otherwise
AfterGet(r, v) ==
    IF r.prog = "analyze"
    THEN IF Truthy(v) THEN Done(r, Returned(v)) ELSE [r EXCEPT !.pc = "read"]
    ELSE Done(r, IF v = None THEN ReturnedNone ELSE Returned(v))

\* a KeyError inside get: analyze_scene catches IOError only (line 151)
GetRaises(r) == Done(r, Raised("KeyError"))

\* line 42-43: if key not in self: return None
GetContains(w) ==
    /\ wk[w].pc = "get_in"
    /\ LET r == [wk[w] EXCEPT !.didGet = TRUE]
       IN  wk' = [wk EXCEPT ![w] =
                    IF Has(cache, r.key) THEN [r EXCEPT !.pc = "get_mte"]
                    ELSE AfterGet(r, None)]
    /\ UNCHANGED <<capacity, cache, fs, recency, scen, memo, procvars>>

\* line 44: self.move_to_end(key)
GetMoveToEnd(w) ==
    /\ wk[w].pc = "get_mte"
    /\ LET r == wk[w]
       IN  IF Has(cache, r.key)
           THEN /\ cache' = move_to_end(cache, r.key)
                /\ wk' = [wk EXCEPT ![w] = [r EXCEPT !.pc = "get_ret"]]
           ELSE /\ cache' = cache
                /\ wk' = [wk EXCEPT ![w] = GetRaises(r)]
    /\ UNCHANGED <<capacity, fs, recency, scen, memo, procvars>>

\* line 45: return self[key]
GetReturn(w) ==
    /\ wk[w].pc = "get_ret"
    /\ LET r == wk[w]
       IN  wk' = [wk EXCEPT ![w] =
                    IF Has(cache, r.key) THEN AfterGet(r, ValueOf(cache, r.key))
                    ELSE GetRaises(r)]
    /\ UNCHANGED <<capacity, cache, fs, recency, scen, memo, procvars>>

(***************************************************************************)
(* LRUCache.put, statement by statement.                                   *)
(***************************************************************************)
\* an analyze_scene that stores the results and forgets to return them
AfterPutReturnsNothing(r) == Done(r, ReturnedNone)

\* put returned: analyze_scene line 182 returns the results
AfterPut(r) ==
    IF r.prog = "analyze" THEN Done(r, Returned(r.val)) ELSE Done(r, ReturnedNone)

\* a KeyError inside put: analyze_scene line 184-186 turns it into None
PutRaises(r) ==
    IF r.prog = "analyze" THEN Done(r, ReturnedNone) ELSE Done(r, Raised("KeyError"))

\* line 49: if key in self
PutContains(w) ==
    /\ wk[w].pc = "put_in"
    /\ wk' = [wk EXCEPT ![w] =
                [wk[w] EXCEPT !.didPut = TRUE,
                              !.pc = IF Has(cache, wk[w].key) THEN "put_mte" ELSE "put_set"]]
    /\ UNCHANGED <<capacity, cache, fs, recency, scen, memo, procvars>>

\* line 50: self.move_to_end(key)
PutMoveToEnd(w) ==
    /\ wk[w].pc = "put_mte"
    /\ LET r == wk[w]
       IN  IF Has(cache, r.key)
           THEN /\ cache' = move_to_end(cache, r.key)
                /\ wk' = [wk EXCEPT ![w] = [r EXCEPT !.pc = "put_set"]]
           ELSE /\ cache' = cache
                /\ wk' = [wk EXCEPT ![w] = PutRaises(r)]
    /\ UNCHANGED <<capacity, fs, recency, scen, memo, procvars>>

\* line 51: self[key] = value
PutSetItem(w) ==
    /\ wk[w].pc = "put_set"
    /\ cache' = setitem(cache, wk[w].key, wk[w].val)
    /\ wk' = [wk EXCEPT ![w] = [wk[w] EXCEPT !.pc = "put_len"]]
    /\ UNCHANGED <<capacity, fs, recency, scen, memo, procvars>>

\* line 52: if len(self) > self.capacity
PutCheckLen(w) ==
    /\ wk[w].pc = "put_len"
    /\ wk' = [wk EXCEPT ![w] =
                IF OverCapacity(cache, capacity) THEN [wk[w] EXCEPT !.pc = "put_pop"]
                ELSE AfterPut(wk[w])]
    /\ UNCHANGED <<capacity, cache, fs, recency, scen, memo, procvars>>

\* line 53: self.popitem(last=False); KeyError on an empty dictionary
PutPopItem(w) ==
    /\ wk[w].pc = "put_pop"
    /\ IF cache # <<>>
       THEN /\ cache' = popitem_first(cache)
            /\ wk' = [wk EXCEPT ![w] = AfterPut(wk[w])]
       ELSE /\ cache' = cache
            /\ wk' = [wk EXCEPT ![w] = PutRaises(wk[w])]
    /\ UNCHANGED <<capacity, fs, recency, scen, memo, procvars>>

\* a clear that removes nothing
ClearForgets(w) ==
    /\ wk[w].pc = "clear"
    /\ wk' = [wk EXCEPT ![w] = Done(wk[w], ReturnedNone)]
    /\ UNCHANGED <<capacity, cache, fs, recency, scen, memo, procvars>>

\* LRUCache.clear, line 57: super().clear()
Clear(w) ==
    /\ wk[w].pc = "clear"
    /\ cache' = <<>>
    /\ wk' = [wk EXCEPT ![w] = Done(wk[w], ReturnedNone)]
    /\ UNCHANGED <<capacity, fs, recency, scen, memo, procvars>>

(***************************************************************************)
(* TextAnalyzer.analyze_scene, one step per file-system or cache access.   *)
(***************************************************************************)
\* an analyze_scene without the test of line 136
AnExistsSkipped(w) ==
    /\ wk[w].pc = "exists"
    /\ wk' = [wk EXCEPT ![w] = [wk[w] EXCEPT !.pc = "stat"]]
    /\ UNCHANGED <<capacity, cache, fs, recency, scen, memo, procvars>>

\* line 136-138: if not file_path.exists(): return None
AnExists(w) ==
    /\ wk[w].pc = "exists"
    /\ wk' = [wk EXCEPT ![w] =
                IF fs[wk[w].file].exists THEN [wk[w] EXCEPT !.pc = "stat"]
                ELSE Done(wk[w], ReturnedNone)]
    /\ UNCHANGED <<capacity, cache, fs, recency, scen, memo, procvars>>

\* line 141-143: if file_path.stat().st_size > max_size: raise ValueError;
\* stat() of a file deleted since line 136 raises FileNotFoundError
AnStat(w) ==
    /\ wk[w].pc = "stat"
    /\ LET r == wk[w]
           s == fs[r.file]
       IN  wk' = [wk EXCEPT ![w] =
                    IF ~s.exists THEN Done(r, Raised("FileNotFoundError"))
                    ELSE IF ExceedsLimit(Len(s.data)) THEN Done(r, Raised(TooLarge))
                    ELSE [r EXCEPT !.pc = IF r.use_cache THEN "hash1" ELSE "read"]]
    /\ UNCHANGED <<capacity, cache, fs, recency, scen, memo, procvars>>

\* line 146-148, 151-152: file_hash = self.get_file_hash(file_path), where
\* an IOError is logged as a cache miss and every other exception propagates
AnHashLookup(w) ==
    /\ wk[w].pc = "hash1"
    /\ LET r == wk[w]
           h == get_file_hash(fs[r.file])
       IN  wk' = [wk EXCEPT ![w] =
                    IF h.ok THEN [r EXCEPT !.key = h.digest, !.pc = "get_in"]
                    ELSE IF h.err = "IOError" THEN [r EXCEPT !.hashErr = TRUE, !.pc = "read"]
                    ELSE Done(r, Raised(EmptyMmap))]
    /\ UNCHANGED <<capacity, cache, fs, recency, scen, memo, procvars>>

\* line 155-160: text = file_path.read_text(encoding); None on IOError or
\* UnicodeDecodeError
AnRead(w) ==
    /\ wk[w].pc = "read"
    /\ LET r == [wk[w] EXCEPT !.didRead = TRUE]
           t == read_text(fs[r.file])
       IN  wk' = [wk EXCEPT ![w] =
                    IF t.ok THEN [r EXCEPT !.text = t.text, !.pc = "compute"]
                    ELSE Done(r, ReturnedNone)]
    /\ UNCHANGED <<capacity, cache, fs, recency, scen, memo, procvars>>

\* an analyze_scene that stores the result whatever use_cache is
AnComputeAlwaysStores(w) ==
    /\ wk[w].pc = "compute"
    /\ wk' = [wk EXCEPT ![w] = [wk[w] EXCEPT !.val = Analysis(wk[w].text), !.pc = "hash2"]]
    /\ UNCHANGED <<capacity, cache, fs, recency, scen, memo, procvars>>

\* line 164-176: the results dictionary; line 179, 182: returned as it is
\* when use_cache is false.  No caller of analyze_scene holds a Counter of
\* get_word_frequency, so what its lru_cache returns is what it computes;
\* word_memo is followed where callers do hold one (AnalyzeText).
AnCompute(w) ==
    /\ wk[w].pc = "compute"
    /\ LET r == [wk[w] EXCEPT !.val = Analysis(wk[w].text)]
       IN  wk' = [wk EXCEPT ![w] =
                    IF r.use_cache THEN [r EXCEPT !.pc = "hash2"]
                    ELSE Done(r, Returned(r.val))]
    /\ UNCHANGED <<capacity, cache, fs, recency, scen, memo, procvars>>

\* line 180: the argument self.get_file_hash(file_path) of put; line 184-186
\* turns every exception it raises into None
AnHashStore(w) ==
    /\ wk[w].pc = "hash2"
    /\ LET r == wk[w]
           h == get_file_hash(fs[r.file])
       IN  wk' = [wk EXCEPT ![w] =
                    IF h.ok THEN [r EXCEPT !.key = h.digest, !.pc = "put_in"]
                    ELSE Done(r, ReturnedNone)]
    /\ UNCHANGED <<capacity, cache, fs, recency, scen, memo, procvars>>

(***************************************************************************)
(* The end of a call.                                                      *)
(***************************************************************************)
IsCacheProg(p) == p \in {"get", "put", "clear"}

\* the keys of rec that are present in c, then k as the latest
Touch(rec, k, c) ==
    SelectSeq(Append(SelectSeq(rec, LAMBDA x : x # k), k), LAMBDA x : Has(c, x))

RecencyAfter(r) ==
    IF (r.prog = "get" /\ r.out.kind = "value") \/ (r.prog = "put" /\ r.out.kind = "none")
    THEN Touch(recency, r.key, cache)
    ELSE SelectSeq(recency, LAMBDA x : Has(cache, x))

ScenAfter(r) ==
    IF scen >= 0 /\ scen < Len(Script)
       /\ Script[scen + 1].prog = r.prog /\ Script[scen + 1].key = r.key
    THEN scen + 1
    ELSE -1

MemoAfter(r) ==
    IF r.use_cache /\ r.out.kind = "value" THEN [file |-> r.file, val |-> r.out.val]
    ELSE NoMemo

\* the single client's call returns; the observers take note
Return(w) ==
    /\ wk[w].pc = "done"
    /\ wk' = [wk EXCEPT ![w] = IdleWorker]
    /\ IF IsCacheProg(wk[w].prog)
       THEN /\ recency' = RecencyAfter(wk[w])
            /\ scen' = ScenAfter(wk[w])
            /\ memo' = memo
       ELSE /\ memo' = MemoAfter(wk[w])
            /\ UNCHANGED <<recency, scen>>
    /\ UNCHANGED <<capacity, cache, fs, procvars>>

\* a concurrent worker's call returns
Finish(w) ==
    /\ wk[w].pc = "done"
    /\ wk' = [wk EXCEPT ![w] = IdleWorker]
    /\ UNCHANGED <<capacity, cache, fs, recency, scen, memo, procvars>>

(***************************************************************************)
(* The environment rewrites, creates or deletes a file.                    *)
(***************************************************************************)
Rewrite(f, s) ==
    /\ s # fs[f]
    /\ fs' = [fs EXCEPT ![f] = s]
    /\ memo' = IF memo.file = f THEN NoMemo ELSE memo
    /\ UNCHANGED <<capacity, cache, wk, recency, scen, procvars>>

\* between two calls
Modify(f, s) == (\A w \in Workers : wk[w].pc = "idle") /\ Rewrite(f, s)
\* while a call is in progress
ModifyDuring(f, s) == (\E w \in Workers : wk[w].pc \notin {"idle", "done"}) /\ Rewrite(f, s)

\* LRUCache.get: its next statement
Get(w) ==
    CASE wk[w].pc = "get_in" -> GetContains(w)
      [] wk[w].pc = "get_mte" -> GetMoveToEnd(w)
      [] wk[w].pc = "get_ret" -> GetReturn(w)
      [] OTHER -> FALSE

\* LRUCache.put: its next statement
Put(w) ==
    CASE wk[w].pc = "put_in" -> PutContains(w)
      [] wk[w].pc = "put_mte" -> PutMoveToEnd(w)
      [] wk[w].pc = "put_set" -> PutSetItem(w)
      [] wk[w].pc = "put_len" -> PutCheckLen(w)
      [] wk[w].pc = "put_pop" -> PutPopItem(w)
      [] OTHER -> FALSE

\* TextAnalyzer.analyze_scene: its next step outside the cache
AnalyzeScene(w) ==
    CASE wk[w].pc = "exists" -> AnExists(w)
      [] wk[w].pc = "stat" -> AnStat(w)
      [] wk[w].pc = "hash1" -> AnHashLookup(w)
      [] wk[w].pc = "read" -> AnRead(w)
      [] wk[w].pc = "compute" -> AnCompute(w)
      [] wk[w].pc = "hash2" -> AnHashStore(w)
      [] OTHER -> FALSE

(***************************************************************************)
(* get_analyzer: the module's analyzer, made on first use.                 *)
(***************************************************************************)
SpawnGetAnalyzer(w) == Enter(w, "get_analyzer", "ga_test", NoKey, None, "none", FALSE, <<>>)

\* get_analyzer: its next statement
GetAnalyzer(w) ==
    LET r == wk[w]
    IN  CASE r.pc = "ga_test" ->
                \* line 211: if _global_analyzer is None
                /\ wk' = [wk EXCEPT ![w].pc = IF global_analyzer = 0 THEN "ga_new" ELSE "ga_ret"]
                /\ UNCHANGED <<capacity, cache, fs, recency, scen, memo, procvars>>
          [] r.pc = "ga_new" ->
                \* line 212, the right-hand side: TextAnalyzer()
                /\ made' = made + 1
                /\ wk' = [wk EXCEPT ![w] = [r EXCEPT !.val = [analyzer |-> made + 1],
                                                     !.pc = "ga_set"]]
                /\ UNCHANGED <<corevars, global_analyzer, held, configvars, batch, latevars>>
          [] r.pc = "ga_set" ->
                \* line 212, the assignment to _global_analyzer
                /\ global_analyzer' = r.val.analyzer
                /\ wk' = [wk EXCEPT ![w].pc = "ga_ret"]
                /\ UNCHANGED <<corevars, made, held, configvars, batch, latevars>>
          [] r.pc = "ga_ret" ->
                \* line 213: return _global_analyzer
                /\ wk' = [wk EXCEPT ![w] = Done(r, Returned([analyzer |-> global_analyzer]))]
                /\ UNCHANGED <<capacity, cache, fs, recency, scen, memo, procvars>>
          [] OTHER -> FALSE

(***************************************************************************)
(* The caller and the dictionaries it was given.                           *)
(***************************************************************************)
\* the call returns and the caller keeps the result.  A hit returns the
\* dictionary that is in the cache (line 45, 149-150); a miss stores and
\* returns one and the same dictionary (line 171-182).
Keep(w) ==
    LET r == wk[w]
        given == IF r.out.kind = "value" /\ r.use_cache THEN {r.key} ELSE {}
        replaced == IF r.didPut THEN {r.key} ELSE {}
    IN  /\ r.pc = "done" /\ r.prog = "analyze"
        /\ wk' = [wk EXCEPT ![w] = IdleWorker]
        /\ held' = {k \in (held \ replaced) \cup given : Has(cache, k)}
        /\ memo' = MemoAfter(r)
        /\ UNCHANGED <<capacity, cache, fs, recency, scen>>
        /\ UNCHANGED <<global_analyzer, made, configvars, batch, latevars>>

\* results['top_words'].clear(), also through a scene record that was
\* updated with the result (main.py line 261-262): lists are not copied
Mutated(v) == [v EXCEPT !.top_words = <<>>]

\* the caller changes, in place, a dictionary it holds
Mutate(k) ==
    /\ \A w \in Workers : wk[w].pc = "idle"
    /\ k \in held /\ Has(cache, k)
    /\ ValueOf(cache, k) # Mutated(ValueOf(cache, k))
    /\ cache' = [cache EXCEPT ![IndexOf(cache, k)].val = Mutated(@)]
    /\ memo' = NoMemo
    /\ UNCHANGED <<capacity, fs, wk, recency, scen, procvars>>

(***************************************************************************)
(* config_loader: the module's configuration dictionary.                   *)
(***************************************************************************)
\* what a configuration file may set: nothing that differs from the
\* defaults (also: no file), or one key, validly or not
ConfigData ==
    {[encoding |-> "utf-8"], [encoding |-> "latin-1"], [stopwords |-> {the_}],
     [top_words_count |-> 0], [top_words_count |-> 1], [max_file_size |-> MaxFileSize - 1]}
        \cup {[cache_size |-> c] : c \in -1..MaxCap}

\* validate_config, the values: line 72-73 and 78-79 raise ValueError
validate_config(c) == c.top_words_count >= 1 /\ c.cache_size >= 0

\* a load_config that updates the dictionary in place:
\* _CONFIG_CACHE.update(config)
LoadConfigInPlace(d) ==
    /\ Len(configs) < MaxConfigs
    /\ config_cache # 0
    /\ configs' = [configs EXCEPT ![config_cache] = Merged(d)]
    /\ UNCHANGED <<corevars, wk, global_analyzer, made, held, config_cache, self_config, batch, latevars>>

\* load_config: a new dictionary, bound to _CONFIG_CACHE when it is valid
\* (line 104-110); when it is not, ValueError and nothing changes
load_config(d) ==
    /\ Len(configs) < MaxConfigs
    /\ IF validate_config(Merged(d))
       THEN /\ configs' = Append(configs, Merged(d))
            /\ config_cache' = Len(configs) + 1
       ELSE UNCHANGED <<configs, config_cache>>
    /\ UNCHANGED <<corevars, wk, global_analyzer, made, held, self_config, batch, latevars>>

\* reload_config, line 139-141: _CONFIG_CACHE = None, then load_config
reload_config(d) ==
    IF validate_config(Merged(d))
    THEN load_config(d)
    ELSE /\ config_cache' = 0
         /\ UNCHANGED <<corevars, wk, global_analyzer, made, held, configs, self_config, batch, latevars>>

\* get_config, line 127-129: load_config() when _CONFIG_CACHE is None
get_config(d) == config_cache = 0 /\ load_config(d)

(***************************************************************************)
(* BookManager.analyze_scenes: every scene of the structure, in order.     *)
(***************************************************************************)
\* the scene paths of a structure
SceneLists == UNION {[1..n -> Files] : n \in 1..MaxScenes}

\* analyze_scenes is called with args.force = force
StartBatch(scenes, force) ==
    /\ batch = NoBatch
    /\ wk[Client].pc = "idle"
    /\ batch' = [scenes |-> scenes, force |-> force, pos |-> 1,
                 results |-> [i \in 1..Len(scenes) |-> Pending],
                 merged |-> [i \in 1..Len(scenes) |-> None],
                 out |-> Pending]
    /\ UNCHANGED <<corevars, wk, global_analyzer, made, held, configvars, latevars>>

\* a result that merges everything but an exception
ResultPresentAlways(out) == out.kind # "raise"

\* main.py line 261: if results
ResultPresent(out) == out.kind = "value" /\ Truthy(out.val)

\* analyze_scenes: its next step
AnalyzeScenes ==
    LET r == wk[Client]
        i == batch.pos
    IN  /\ batch.out = Pending
        /\ CASE r.pc = "idle" /\ i <= Len(batch.scenes) ->
                    \* line 257-260: analyze_scene(scene['path'], use_cache=not force)
                    CallAnalyze(Client, batch.scenes[i], ~batch.force)
             [] r.pc = "idle" /\ i > Len(batch.scenes) ->
                    \* the loops are over
                    /\ batch' = [batch EXCEPT !.out = ReturnedNone]
                    /\ UNCHANGED <<corevars, wk, global_analyzer, made, held, configvars, latevars>>
             [] r.pc = "done" /\ r.prog = "analyze" ->
                    \* line 261-267: scene.update(results), or BookManagerError;
                    \* an exception of analyze_scene is not caught here
                    /\ batch' =
                         IF ResultPresent(r.out)
                         THEN [batch EXCEPT !.results[i] = r.out, !.merged[i] = r.out.val,
                                            !.pos = i + 1]
                         ELSE [batch EXCEPT !.results[i] = r.out,
                                            !.out = IF r.out.kind = "raise" THEN r.out
                                                    ELSE Raised("BookManagerError")]
                    /\ wk' = [wk EXCEPT ![Client] = IdleWorker]
                    /\ UNCHANGED <<corevars, global_analyzer, made, held, configvars, latevars>>
             [] OTHER -> FALSE

(***************************************************************************)
(* The text functions called on a text: the part of analyze_scene that     *)
(* follows the read (lines 163-176), and get_word_frequency called         *)
(* directly.  get_word_frequency is wrapped in lru_cache(maxsize=1000): a  *)
(* call with a text seen before returns the Counter object stored by the   *)
(* first call.  The texts explored are far fewer than maxsize, so nothing  *)
(* is evicted.                                                             *)
(***************************************************************************)
\* pieces a text is put together from
MaxPieces == 3

fox_ == <<"f", "o", "x">>
tax_ == <<"t", "a", "x">>
\* the text of test_word_frequency's kind: "the quick and the fox"
Example == <<"t", "h", "e", " ", "q", "u", "i", "c", "k", " ", "a", "n", "d", " ", "t", "h", "e", " ", "f", "o", "x">>
\* six words that count, so that top_words has to leave one out
SixWords == <<"f", "o", "x", " ", "d", "o", "t", " ", "t", "o", "t", " ", "o", "a", "t", " ", "t", "a", "x", " ", "a", "d", "d", " ">>
\* lines with and without a task
TodoLines == <<"t", "o", "d", "o", ":", " ", "f", "o", "x", "\n", "T", "O", "D", "O", "\n", "x", " ", "T", "o", "d", "o", " ", "-", " ", "t", "a", "x", " ", " ", "\n">>

Bases == {<<>>, Example, SixWords, TodoLines}
Pieces ==
    {<<>>, the_, tax_, <<"F", "o", "x">>, <<"t", "o">>, <<"T", "O", "D", "O">>,
     <<" ">>, <<"\n">>, <<":">>, <<"-">>}

RECURSIVE Joined(_)
\* the concatenations of n pieces
Joined(n) == IF n = 0 THEN {<<>>} ELSE {t \o p : t \in Joined(n - 1), p \in Pieces}

Texts == {b \o t : b \in Bases, t \in Joined(MaxPieces)}

MemoHas(t) == \E e \in word_memo : e.text = t
MemoOf(t) == (CHOOSE e \in word_memo : e.text = t).freq
\* the lru_cache wrapper: the stored Counter on a hit, else the computed one,
\* which is stored
cached_word_frequency(t) == IF MemoHas(t) THEN MemoOf(t) ELSE get_word_frequency(t)
MemoAfterCall(t) ==
    IF MemoHas(t) THEN word_memo
    ELSE word_memo \cup {[text |-> t, freq |-> get_word_frequency(t)]}

\* a text is read and handed to the analysis
GiveText(t) ==
    /\ txt.out # Pending
    /\ txt' = [txt EXCEPT !.text = t, !.out = Pending]
    /\ UNCHANGED <<libvars, word_memo, appvars>>

\* analyze_scene, lines 163-176: word_count, freq, top_words, todos, and the
\* results dictionary with dict(freq)
AnalyzeText ==
    /\ txt.out = Pending
    /\ txt' = [txt EXCEPT !.out = Returned(ResultOf(txt.text, cached_word_frequency(txt.text)))]
    /\ word_memo' = MemoAfterCall(txt.text)
    /\ UNCHANGED <<libvars, appvars>>

\* largest count a caller writes into a Counter it holds
MaxBump == 2

\* counter[w] += 1 on a list of <<word, count>>: a missing word counts 0
Bumped(freq, w) ==
    IF \E i \in 1..Len(freq) : freq[i][1] = w
    THEN [i \in 1..Len(freq) |-> IF freq[i][1] = w THEN <<w, freq[i][2] + 1>> ELSE freq[i]]
    ELSE Append(freq, <<w, 1>>)

CountIn(freq, w) ==
    IF \E i \in 1..Len(freq) : freq[i][1] = w
    THEN (CHOOSE p \in {freq[i] : i \in 1..Len(freq)} : p[1] = w)[2]
    ELSE 0

\* a caller calls analyzer.get_word_frequency(t, stopwords) itself and keeps
\* the Counter it is given, which is the object the lru_cache holds
CallFrequency(t) ==
    /\ txt.out # Pending
    /\ txt' = [text |-> t, out |-> Returned([counter |-> cached_word_frequency(t)]),
               counters |-> txt.counters \cup {t}]
    /\ word_memo' = MemoAfterCall(t)
    /\ UNCHANGED <<libvars, appvars>>

\* the caller adds one to a word's count in a Counter it holds
MutateCounter(t, w) ==
    /\ t \in txt.counters
    /\ CountIn(MemoOf(t), w) < MaxBump
    /\ word_memo' = (word_memo \ {[text |-> t, freq |-> MemoOf(t)]})
                        \cup {[text |-> t, freq |-> Bumped(MemoOf(t), w)]}
    /\ UNCHANGED <<libvars, txt, appvars>>

(***************************************************************************)
(* compile/compiler.py: compile_manuscript, one attempt, and               *)
(* batch_compile, the loop of attempts.                                    *)
(***************************************************************************)
\* largest value of the retries argument explored
MaxRetries == 3

\* DocumentCompiler.supported_formats
SupportedFormats == {"docx", "pdf"}
\* the formats arguments explored; "txt" is not supported
FormatLists == {<<"docx", "pdf">>, <<"pdf">>, <<"txt">>}

Files_(fs_) == [kind |-> "files", files |-> fs_]
CompilationError == [kind |-> "raise", files |-> <<>>]
OtherError == [kind |-> "other", files |-> <<>>]

\* What one call of compile_manuscript(structure, formats, ...) can do:
\* raise from the constructor (line 534, outside the try); return (False, [])
\* for an empty structure (537-540) or for no content (570-572); raise
\* CompilationError for a scene that cannot be read, a conversion that fails
\* or any other exception inside the try (557-563, 509-511, 578-583); return
\* (len(generated) > 0, generated), a file for every supported format.
AttemptOutcomes(empty, formats) ==
    IF empty THEN {OtherError, Files_(<<>>)}
    ELSE {OtherError, Files_(<<>>), CompilationError,
          Files_(SelectSeq(formats, LAMBDA f : f \in SupportedFormats))}

\* the first element of the pair compile_manuscript returns
Success(o) == o.kind = "files" /\ o.files # <<>>

\* a test of the last attempt that never holds
LastAttemptNever(attempt, retries) == FALSE

\* line 632: if attempt == retries
LastAttempt(attempt, retries) == attempt = retries

\* batch_compile is called
Compiling(retries, empty, formats) ==
    [NoCompile EXCEPT !.pc = "loop", !.retries = retries, !.empty = empty, !.formats = formats]

CallBatchCompile(retries, empty, formats) ==
    /\ comp.pc = "idle"
    /\ comp' = Compiling(retries, empty, formats)
    /\ UNCHANGED <<libvars, txt, word_memo, run>>

\* One turn of the loop of batch_compile (lines 620-635) and, after the last
\* turn, line 637.  The sleep before a retry ends by itself.
CompileAttempt ==
    /\ comp.pc = "loop"
    /\ \E o \in AttemptOutcomes(comp.empty, comp.formats) :
         LET c == [comp EXCEPT !.log = Append(comp.log, o)]
             created == comp.created \o o.files
             \* the next turn, or the return after the loop
             again == IF c.attempt + 1 <= c.retries
                      THEN [c EXCEPT !.attempt = c.attempt + 1, !.created = created]
                      ELSE [c EXCEPT !.pc = "done", !.created = created,
                                     !.out = Returned([success |-> FALSE, files |-> created])]
         IN  comp' =
               CASE o.kind = "other" -> [c EXCEPT !.pc = "done", !.out = Raised("Exception")]
                 [] o.kind = "raise" ->
                        IF LastAttempt(c.attempt, c.retries)
                        THEN [c EXCEPT !.pc = "done", !.out = Raised("CompilationError")]
                        ELSE again
                 [] Success(o) ->
                        [c EXCEPT !.pc = "done", !.created = created,
                                  !.out = Returned([success |-> TRUE, files |-> created])]
                 [] OTHER -> again
    /\ UNCHANGED <<libvars, txt, word_memo, run>>

(***************************************************************************)
(* main.py: BookManager.run, one step per method it calls.                 *)
(***************************************************************************)
\* the default of batch_compile's retries argument
DefaultRetries == 2

\* How a step of run can end.  setup turns every exception into
\* BookManagerError (line 230-231); scan_project raises it for a falsy
\* structure (243-244); analyze_scenes raises it for a scene without result
\* and lets analyze_scene's ValueError through (254-267); generate_outline
\* reads the scenes with defaults (269-327); save_outline raises it on IOError
\* (343-344).
StepOutcomes(step) ==
    CASE step = "analyze" -> {"ok", "BookManagerError", "ValueError"}
      [] step = "outline" -> {"ok"}
      [] OTHER -> {"ok", "BookManagerError"}

\* a run that analyses the scenes whatever report_only is
NextStepAnalyzesAlways(step, report_only) ==
    CASE step = "setup" -> "scan" [] step = "scan" -> "analyze"
      [] step = "analyze" -> "outline" [] step = "outline" -> "save"
      [] step = "save" -> "compile"

\* lines 380-386: the statement after a step that returned
NextStep(step, report_only) ==
    CASE step = "setup" -> "scan"
      [] step = "scan" -> IF report_only THEN "outline" ELSE "analyze"
      [] step = "analyze" -> "outline"
      [] step = "outline" -> "save"
      [] step = "save" -> "compile"

CallRun(report_only, no_compile, formats) ==
    /\ run.pc = "idle"
    /\ run' = [NoRun EXCEPT !.pc = "setup", !.report_only = report_only,
                            !.no_compile = no_compile, !.formats = formats]
    /\ UNCHANGED <<libvars, txt, word_memo, comp>>

\* BookManager.run: its next step.  An exception of a step leaves run: a
\* BookManagerError is logged and raised again (390-392), any other passes.
Run ==
    LET Step(ok) == Append(run.trace, [step |-> run.pc, ok |-> ok])
        Ended(out) ==
            [run EXCEPT !.pc = "done", !.out = out,
                        !.trace = [run.trace EXCEPT ![Len(run.trace)].ok = (out = ReturnedNone)]]
    IN  /\ CASE run.pc \in {"setup", "scan", "analyze", "outline", "save"} ->
                    /\ \E o \in StepOutcomes(run.pc) :
                         run' = IF o = "ok"
                                THEN [run EXCEPT !.trace = Step(TRUE),
                                                 !.pc = NextStep(run.pc, run.report_only)]
                                ELSE [run EXCEPT !.trace = Step(FALSE), !.pc = "done",
                                                 !.out = Raised(o)]
                    /\ comp' = comp
             [] run.pc = "compile" ->
                    \* compile_manuscript, line 353: batch_compile is called
                    \* with the scanned structure, which is not empty
                    IF ~run.no_compile /\ ~run.report_only
                    THEN /\ run' = [run EXCEPT !.trace = Step(TRUE), !.pc = "compiling"]
                         /\ comp' = Compiling(DefaultRetries, FALSE, run.formats)
                    ELSE /\ run' = [run EXCEPT !.pc = "done", !.out = ReturnedNone]
                         /\ comp' = comp
             [] run.pc = "compiling" ->
                    \* line 360-368: batch_compile has returned or raised
                    /\ comp.pc = "done"
                    /\ run' = CASE comp.out.kind = "value" /\ comp.out.val.success ->
                                       Ended(ReturnedNone)
                                [] comp.out = Raised("Exception") -> Ended(Raised("Exception"))
                                [] OTHER -> Ended(Raised("BookManagerError"))
                    /\ comp' = comp
             [] OTHER -> FALSE
        /\ UNCHANGED <<libvars, txt, word_memo>>

(***************************************************************************)
(* SpecCache: one client calls get, put and clear on a new LRUCache.       *)
(***************************************************************************)
InitCache == Init0 /\ fs = [f \in Files |-> Missing]

NextCache ==
    \/ \E k \in Keys : CallGet(Client, k)
    \/ \E k \in Keys, v \in Values : CallPut(Client, k, v)
    \/ CallClear(Client)
    \/ Get(Client)
    \/ Put(Client)
    \/ Clear(Client)
    \/ Return(Client)

SpecCache == InitCache /\ [][NextCache]_vars

(***************************************************************************)
(* Spec: one client calls analyze_scene; files change between the calls.   *)
(***************************************************************************)
Init == Init0 /\ fs \in [Files -> FileStates]

Next ==
    \/ \E f \in Files, uc \in BOOLEAN : CallAnalyze(Client, f, uc)
    \/ AnalyzeScene(Client)
    \/ Get(Client)
    \/ Put(Client)
    \/ Return(Client)
    \/ \E f \in Files, s \in FileStates : Modify(f, s)

Spec == Init /\ [][Next]_vars

(***************************************************************************)
(* SpecRace: one worker calls analyze_scene on one file, which changes at  *)
(* any time, also while a call is in progress.                             *)
(***************************************************************************)
RaceFiles == {"f1"}

InitRace ==
    /\ Init0
    /\ fs \in [Files -> FileStates]
    /\ \A f \in Files \ RaceFiles : fs[f] = Missing

NextRace ==
    \/ \E f \in RaceFiles, uc \in BOOLEAN : SpawnAnalyze(Client, f, uc)
    \/ AnalyzeScene(Client)
    \/ Get(Client)
    \/ Put(Client)
    \/ Finish(Client)
    \/ \E f \in RaceFiles, s \in FileStates : Modify(f, s)
    \/ \E f \in RaceFiles, s \in FileStates : ModifyDuring(f, s)

SpecRace == InitRace /\ [][NextRace]_vars

(***************************************************************************)
(* SpecShared: the workers call analyze_scene(file, use_cache=True) on one *)
(* analyzer, of capacity >= 1, at the same time; the files are ordinary    *)
(* and nobody changes them.                                                *)
(***************************************************************************)
OrdinaryStates == {Holds(Fox, "ok"), Holds(AtLimit, "ok")}

InitShared == Init0 /\ capacity >= 1 /\ fs \in [Files -> OrdinaryStates]

NextShared ==
    \E w \in Workers :
        \/ \E f \in Files : SpawnAnalyze(w, f, TRUE)
        \/ AnalyzeScene(w)
        \/ Get(w)
        \/ Put(w)
        \/ Finish(w)

SpecShared == InitShared /\ [][NextShared]_vars

(***************************************************************************)
(* SpecSharedCache: the workers call get, put and clear on one LRUCache,   *)
(* of capacity >= 1, at the same time.                                     *)
(***************************************************************************)
SharedKeys == {"key1", "key2", "key3"}

InitSharedCache == InitCache /\ capacity >= 1

NextSharedCache ==
    \E w \in Workers :
        \/ \E k \in SharedKeys : SpawnGet(w, k)
        \/ \E k \in SharedKeys, v \in Values : SpawnPut(w, k, v)
        \/ SpawnClear(w)
        \/ Get(w)
        \/ Put(w)
        \/ Clear(w)
        \/ Finish(w)

SpecSharedCache == InitSharedCache /\ [][NextSharedCache]_vars

(***************************************************************************)
(* SpecDuplicate: as SpecShared, with every call remembering the cache as  *)
(* it was when the call began.                                             *)
(***************************************************************************)
NextDuplicate ==
    \E w \in Workers :
        \/ \E f \in Files : CallAnalyze(w, f, TRUE)
        \/ AnalyzeScene(w)
        \/ Get(w)
        \/ Put(w)
        \/ Finish(w)

SpecDuplicate == InitShared /\ [][NextDuplicate]_vars

(***************************************************************************)
(* SpecSingleton: the workers call get_analyzer at the same time, from the *)
(* start of the process.                                                   *)
(***************************************************************************)
NextSingleton ==
    \E w \in Workers :
        \/ SpawnGetAnalyzer(w)
        \/ GetAnalyzer(w)
        \/ Finish(w)

SpecSingleton == InitCache /\ [][NextSingleton]_vars

(***************************************************************************)
(* SpecAlias: as Spec, and the client keeps the results it is given and    *)
(* changes them in place between calls.                                    *)
(***************************************************************************)
NextAlias ==
    \/ \E f \in Files, uc \in BOOLEAN : CallAnalyze(Client, f, uc)
    \/ AnalyzeScene(Client)
    \/ Get(Client)
    \/ Put(Client)
    \/ Keep(Client)
    \/ \E k \in held : Mutate(k)
    \/ \E f \in Files, s \in FileStates : Modify(f, s)

SpecAlias == Init /\ [][NextAlias]_vars

(***************************************************************************)
(* SpecConfig: the configuration is loaded and reloaded after the analyzer *)
(* was constructed.                                                        *)
(***************************************************************************)
NextConfig ==
    \E d \in ConfigData :
        \/ load_config(d)
        \/ reload_config(d)
        \/ get_config(d)

SpecConfig == InitCache /\ [][NextConfig]_vars

(***************************************************************************)
(* SpecBatch: one run of analyze_scenes over a structure of scenes.        *)
(***************************************************************************)
NextBatch ==
    \/ \E scenes \in SceneLists, force \in BOOLEAN : StartBatch(scenes, force)
    \/ AnalyzeScenes
    \/ AnalyzeScene(Client)
    \/ Get(Client)
    \/ Put(Client)

SpecBatch == Init /\ [][NextBatch]_vars

(***************************************************************************)
(* SpecText: one text, out of Texts, is analysed.  The analyzer's cache    *)
(* plays no part.                                                          *)
(***************************************************************************)
InitText == InitCache /\ capacity = MaxCap

NextText ==
    \/ txt = NoText /\ \E t \in Texts : GiveText(t)
    \/ AnalyzeText

SpecText == InitText /\ [][NextText]_vars

(***************************************************************************)
(* SpecSharedPut: the workers call only put on one LRUCache, of            *)
(* capacity >= 1, at the same time.                                        *)
(***************************************************************************)
NextSharedPut ==
    \E w \in Workers :
        \/ \E k \in SharedKeys, v \in Values : SpawnPut(w, k, v)
        \/ Put(w)
        \/ Finish(w)

SpecSharedPut == InitSharedCache /\ [][NextSharedPut]_vars

(***************************************************************************)
(* SpecMemo: a caller analyses texts, calls get_word_frequency itself and  *)
(* changes the Counters it was given.                                      *)
(***************************************************************************)
MemoTexts == {Example, fox_ \o <<" ">> \o tax_, <<"t", "o">>}

NextMemo ==
    \/ \E t \in MemoTexts : GiveText(t)
    \/ AnalyzeText
    \/ \E t \in MemoTexts : CallFrequency(t)
    \/ \E t \in MemoTexts, w \in {fox_, tax_} : MutateCounter(t, w)

SpecMemo == InitText /\ [][NextMemo]_vars

(***************************************************************************)
(* SpecCompile: one call of batch_compile.  A turn of its loop that can    *)
(* run does run: the interpreter goes on, the sleep ends, and              *)
(* compile_manuscript returns or raises.                                   *)
(***************************************************************************)
NextCompile ==
    \/ \E n \in 0..MaxRetries, e \in BOOLEAN, f \in FormatLists : CallBatchCompile(n, e, f)
    \/ CompileAttempt

SpecCompile == InitText /\ [][NextCompile]_vars /\ WF_vars(CompileAttempt)

(***************************************************************************)
(* SpecRun: one call of BookManager.run, with every combination of         *)
(* --report-only and --no-compile and every outcome of every step.         *)
(***************************************************************************)
NextRun ==
    \/ \E ro \in BOOLEAN, nc \in BOOLEAN, f \in {<<"docx", "pdf">>, <<"txt">>} : CallRun(ro, nc, f)
    \/ Run
    \/ CompileAttempt

SpecRun == InitText /\ [][NextRun]_vars

(***************************************************************************)
(* Properties.                                                             *)
(***************************************************************************)
Completed(w) == wk[w].pc \in {"idle", "done"}
AnalyzeDone(w) == wk[w].pc = "done" /\ wk[w].prog = "analyze"
\* the analysis of the bytes a file holds now
AnalysisOfFile(f) == Analysis(Decode(fs[f].data))

\* C1: for capacity >= 1, after every completed get, put or clear the cache
\* holds between 0 and capacity entries, no key twice.
C1_SizeWithinCapacity ==
    (capacity >= 1 /\ Completed(Client)) =>
        /\ 0 <= Len(cache)
        /\ Len(cache) <= capacity
        /\ Cardinality(KeysOf(cache)) = Len(cache)

\* a put of a new key into a full cache has completed
C1_Witness ==
    /\ capacity >= 1
    /\ wk[Client].pc = "done" /\ wk[Client].prog = "put"
    /\ Len(wk[Client].cache0) = capacity
    /\ ~Has(wk[Client].cache0, wk[Client].key)
    /\ Len(cache) = capacity

\* C2: a put of an absent key into a cache holding capacity entries removes
\* exactly one entry, the one least recently put or found by get, and every
\* other entry keeps its value; with capacity 2, after put A, put B, put C the
\* keys are B and C, and after get B, put D they are B and D.
C2_EvictsLeastRecentlyUsed ==
    LET r == wk[Client]
        before == KeysOf(r.cache0) \cup {r.key}
        removed == before \ KeysOf(cache)
    IN  /\ (r.pc = "done" /\ r.prog = "put" /\ ~Has(r.cache0, r.key)
                /\ Len(r.cache0) = capacity) =>
              /\ KeysOf(cache) \subseteq before
              /\ removed = {Head(Append(recency, r.key))}
              /\ \A k \in KeysOf(cache) \ {r.key} : ValueOf(cache, k) = ValueOf(r.cache0, k)
        /\ (capacity = 2 /\ r.pc = "idle" /\ scen = 3) => KeysOf(cache) = {"key2", "key3"}
        /\ (capacity = 2 /\ r.pc = "idle" /\ scen = 5) => KeysOf(cache) = {"key2", "key4"}

\* the script put A, put B, put C, get B, put D has run on a cache of capacity 2
C2_Witness == capacity = 2 /\ wk[Client].pc = "idle" /\ scen = 5

\* C3: with no file changed during a call, a result that analyze_scene(file,
\* use_cache=True) returns is the analysis of the bytes the file holds now,
\* never the one cached for earlier bytes.
C3_ResultIsOfCurrentContent ==
    LET r == wk[Client]
    IN  (AnalyzeDone(Client) /\ r.use_cache /\ r.out.kind = "value") =>
            /\ fs[r.file].exists
            /\ Decodable(fs[r.file].data)
            /\ r.out.val = AnalysisOfFile(r.file)

\* a call has returned a fresh result while the cache held, and still holds,
\* an entry for other bytes
C3_Witness ==
    LET r == wk[Client]
    IN  /\ AnalyzeDone(Client) /\ r.use_cache /\ r.out.kind = "value" /\ r.didRead
        /\ r.cache0 # <<>>
        /\ KeysOf(r.cache0) \subseteq KeysOf(cache)
        /\ ~Has(r.cache0, Sha256(fs[r.file].data))

\* C4: with capacity >= 1, a call with use_cache=True that directly follows
\* one on the same file that returned a result, the file untouched since,
\* returns the same result without reading the text: it hashes the file and
\* looks the digest up, and stores nothing.
C4_SecondCallHitsCache ==
    LET r == wk[Client]
    IN  (AnalyzeDone(Client) /\ r.use_cache /\ memo.file = r.file /\ capacity >= 1) =>
            /\ r.out = Returned(memo.val)
            /\ ~r.didRead
            /\ r.didGet
            /\ ~r.didPut

C4_Witness ==
    /\ AnalyzeDone(Client) /\ wk[Client].use_cache
    /\ memo.file = wk[Client].file /\ capacity >= 1
    /\ wk[Client].out.kind = "value"

\* C5: every cache entry's value is the analysis of the bytes whose digest
\* is the entry's key, also when files change while a call is in progress.
C5_EntriesMatchTheirKey ==
    \A i \in 1..Len(cache) :
        \E d \in Contents :
            /\ Sha256(d) = cache[i].key
            /\ Decodable(d)
            /\ cache[i].val = Analysis(Decode(d))

\* C6: on an existing file, with or without the cache, analyze_scene raises
\* the size-limit error exactly when the file is larger than max_file_size,
\* and then it has neither read nor changed the cache.
C6_SizeLimit ==
    LET r == wk[Client]
    IN  (AnalyzeDone(Client) /\ fs[r.file].exists) =>
            /\ (r.out = Raised(TooLarge)) <=> (Len(fs[r.file].data) > MaxFileSize)
            /\ (r.out = Raised(TooLarge)) => (~r.didGet /\ ~r.didPut /\ cache = r.cache0)

\* a file of max_file_size + 1 bytes has been rejected, the cache not empty,
\* right after a file of exactly max_file_size bytes was analysed
C6_Witness ==
    LET r == wk[Client]
    IN  /\ AnalyzeDone(Client) /\ r.out = Raised(TooLarge)
        /\ fs[r.file].data = OverLimit
        /\ cache # <<>>
        /\ memo.file \in Files /\ fs[memo.file].data = AtLimit

\* C7: a call of analyze_scene ends by returning a result, by returning None
\* or by raising the size-limit error.
C7_OnlySizeLimitPropagates ==
    \A w \in Workers :
        AnalyzeDone(w) => (wk[w].out.kind \in {"value", "none"} \/ wk[w].out = Raised(TooLarge))

\* C8: when hashing for the lookup failed with an I/O error and the file can
\* be read and decoded, the call returns the analysis of what was read.
C8_HashFailureIsNotFatal ==
    LET r == wk[Client]
    IN  (AnalyzeDone(Client) /\ r.use_cache /\ r.hashErr /\ read_text(fs[r.file]).ok) =>
            r.out = Returned(Analysis(read_text(fs[r.file]).text))

\* a worker has executed a statement of get or put and has not finished it
InsideCacheOp(w) ==
    wk[w].pc \in {"get_mte", "get_ret", "put_mte", "put_set", "put_len", "put_pop"}

\* C9: get, put and clear run under one lock: no two workers are inside a
\* cache operation at the same time.
C9_CacheOpsMutuallyExclusive ==
    \A w1, w2 \in Workers : (w1 # w2) => ~(InsideCacheOp(w1) /\ InsideCacheOp(w2))

\* C10: concurrent calls with use_cache=True on ordinary, unchanged files
\* each return the analysis of their file, under every interleaving.
C10_ConcurrentCallsReturnAnalysis ==
    \A w \in Workers :
        AnalyzeDone(w) => wk[w].out = Returned(AnalysisOfFile(wk[w].file))


\* C11: when two concurrent calls with use_cache=True on the same unchanged
\* file both missed and both went on to put, then after both the cache holds
\* one entry under the file's digest, its value is the analysis both wrote,
\* and the cache is at most one entry longer than when the calls began.
C11_DuplicateMissesLeaveOneEntry ==
    \A w1, w2 \in Workers :
        (w1 # w2 /\ AnalyzeDone(w1) /\ AnalyzeDone(w2)
            /\ wk[w1].file = wk[w2].file /\ wk[w1].didPut /\ wk[w2].didPut) =>
            LET k == Sha256(fs[wk[w1].file].data)
            IN  /\ Cardinality({i \in 1..Len(cache) : cache[i].key = k}) = 1
                /\ ValueOf(cache, k) = AnalysisOfFile(wk[w1].file)
                /\ \E w \in {w1, w2} : Len(cache) <= Len(wk[w].cache0) + 1

\* C12: get of a present key returns its value and moves that entry, alone,
\* to the most recent end: keys, values and the order of the others stay;
\* get of an absent key returns None and leaves the cache as it was.
C12_GetMovesOnlyItsEntry ==
    LET r == wk[Client]
    IN  (r.pc = "done" /\ r.prog = "get") =>
            IF Has(r.cache0, r.key)
            THEN /\ r.out = Returned(ValueOf(r.cache0, r.key))
                 /\ cache = Append(Without(r.cache0, r.key),
                                   [key |-> r.key, val |-> ValueOf(r.cache0, r.key)])
            ELSE /\ r.out = ReturnedNone
                 /\ cache = r.cache0

\* a get has found the oldest of two entries
C12_Witness ==
    LET r == wk[Client]
    IN  /\ r.pc = "done" /\ r.prog = "get"
        /\ Len(r.cache0) = 2 /\ r.cache0[1].key = r.key
        /\ cache[2].key = r.key

\* C13: put of a present key replaces its value and makes the entry the most
\* recent one; the number of entries stays and nothing is evicted, also when
\* the cache is full.
C13_PutOfPresentKeyReplaces ==
    LET r == wk[Client]
    IN  (r.pc = "done" /\ r.prog = "put" /\ Has(r.cache0, r.key)) =>
            /\ r.out = ReturnedNone
            /\ cache = Append(Without(r.cache0, r.key), [key |-> r.key, val |-> r.val])
            /\ Len(cache) = Len(r.cache0)
            /\ KeysOf(cache) = KeysOf(r.cache0)

\* a put has given the oldest entry of a full cache another value
C13_Witness ==
    LET r == wk[Client]
    IN  /\ r.pc = "done" /\ r.prog = "put"
        /\ capacity = 2 /\ Len(r.cache0) = capacity
        /\ r.cache0[1].key = r.key /\ r.cache0[1].val # r.val
        /\ cache[2] = [key |-> r.key, val |-> r.val]

\* C14: clear leaves the cache empty and the capacity as it was, which is the
\* state of a new cache of that capacity: a get that follows finds nothing
\* and a put that follows is the first entry.
C14_ClearLeavesNewCache ==
    [][/\ capacity' = capacity
       /\ (wk'[Client].pc = "done" /\ wk'[Client].prog = "clear") =>
              (cache' = <<>> /\ wk'[Client].out = ReturnedNone)
       /\ (wk'[Client].pc = "done" /\ wk'[Client].prog = "get"
              /\ wk'[Client].cache0 = <<>>) =>
              (wk'[Client].out = ReturnedNone /\ cache' = <<>>)
       /\ (wk'[Client].pc = "done" /\ wk'[Client].prog = "put"
              /\ wk'[Client].cache0 = <<>> /\ capacity >= 1) =>
              cache' = <<[key |-> wk'[Client].key, val |-> wk'[Client].val]>>]_vars

\* a clear of a full cache has completed
C14_Witness ==
    LET r == wk[Client]
    IN  /\ r.pc = "done" /\ r.prog = "clear"
        /\ capacity >= 1 /\ Len(r.cache0) = capacity
        /\ cache = <<>>

\* C15: on a path that does not exist analyze_scene returns None, with or
\* without the cache, and neither reads the file nor reads or changes the
\* cache.
C15_MissingFileGivesNone ==
    LET r == wk[Client]
    IN  (AnalyzeDone(Client) /\ ~fs[r.file].exists) =>
            /\ r.out = ReturnedNone
            /\ ~r.didGet /\ ~r.didPut /\ ~r.didRead
            /\ cache = r.cache0

\* a call with use_cache=True on a missing path has ended, the cache not empty
C15_Witness ==
    LET r == wk[Client]
    IN  /\ AnalyzeDone(Client) /\ ~fs[r.file].exists /\ r.use_cache
        /\ r.cache0 # <<>>
        /\ r.out = ReturnedNone

\* C16 as stated: on every existing file whose bytes do not decode,
\* analyze_scene returns None, with or without the cache, and no entry is
\* ever stored under the digest of such bytes.
C16_UndecodableGivesNone ==
    LET r == wk[Client]
    IN  /\ (AnalyzeDone(Client) /\ fs[r.file].exists /\ ~Decodable(fs[r.file].data)) =>
              (r.out = ReturnedNone /\ cache = r.cache0)
        /\ \A d \in Contents : ~Decodable(d) => ~Has(cache, Sha256(d))

\* C16: on an existing file within the size limit whose bytes do not decode,
\* analyze_scene returns None, with or without the cache, and no entry is
\* ever stored under the digest of bytes that do not decode.
C16_UndecodableWithinLimitGivesNone ==
    LET r == wk[Client]
    IN  /\ (AnalyzeDone(Client) /\ fs[r.file].exists /\ ~Decodable(fs[r.file].data)
                /\ ~ExceedsLimit(Len(fs[r.file].data))) =>
              (r.out = ReturnedNone /\ cache = r.cache0)
        /\ \A d \in Contents : ~Decodable(d) => ~Has(cache, Sha256(d))

\* a call with use_cache=True on b'\x80\x81' has looked the digest up, tried
\* to read the text and ended, the cache not empty
C16_Witness ==
    LET r == wk[Client]
    IN  /\ AnalyzeDone(Client) /\ fs[r.file] = Holds(Bad, "ok") /\ r.use_cache
        /\ r.didGet /\ r.didRead
        /\ r.cache0 # <<>>

\* C17: get_analyzer makes at most one TextAnalyzer, and every call returns
\* that one, also when the first calls run at the same time.
C17_OneAnalyzerPerProcess ==
    /\ made <= 1
    /\ \A w \in Workers :
          (wk[w].pc = "done" /\ wk[w].prog = "get_analyzer") =>
              wk[w].out = Returned([analyzer |-> 1])

\* C18: the cache's values are not reachable from outside: whatever the
\* caller did to the results it was given, a cache hit returns the analysis
\* of the bytes whose digest was looked up.
C18_HitReturnsWhatWasStored ==
    LET r == wk[Client]
    IN  (AnalyzeDone(Client) /\ r.use_cache /\ r.out.kind = "value" /\ ~r.didRead) =>
            \E d \in Contents :
                /\ Sha256(d) = r.key
                /\ Decodable(d)
                /\ r.out.val = Analysis(Decode(d))

\* C19: load_config and reload_config change neither the dictionary the
\* analyzer reads its stopwords, max_file_size, top_words_count and encoding
\* from, nor the capacity of its cache.
C19_AnalyzerConfigIsFixed ==
    [][/\ configs'[self_config'] = configs[self_config]
       /\ capacity' = capacity]_vars

\* the module's configuration is another dictionary than the analyzer's,
\* with another cache_size
C19_Witness ==
    /\ config_cache # 0 /\ config_cache # self_config
    /\ configs[config_cache].cache_size # capacity
    /\ configs[self_config].cache_size = capacity
    /\ Len(configs) = MaxConfigs

\* C20: analyze_scenes merges a result into a scene exactly when the result
\* is present; at the first scene whose analysis returns None it raises
\* BookManagerError, and no scene after that one is analysed.
C20_AbsentResultStopsBatch ==
    LET n == Len(batch.scenes)
    IN  /\ \A j \in 1..n :
              /\ (batch.merged[j] # None) <=> (batch.results[j].kind = "value")
              /\ (batch.results[j].kind = "value") => (batch.merged[j] = batch.results[j].val)
              /\ (batch.results[j] = ReturnedNone) =>
                    /\ batch.out = Raised("BookManagerError")
                    /\ batch.pos = j
                    /\ wk[Client].pc = "idle"
                    /\ \A i \in (j + 1)..n :
                          batch.results[i] = Pending /\ batch.merged[i] = None
        /\ (batch.out = Raised("BookManagerError")) =>
              (batch.pos <= n /\ batch.results[batch.pos] = ReturnedNone)

\* the first scene was merged, the second gave None and BookManagerError,
\* and the third, which could have been analysed, was not
C20_Witness ==
    /\ Len(batch.scenes) = 3
    /\ batch.out = Raised("BookManagerError") /\ batch.pos = 2
    /\ batch.merged[1] # None
    /\ batch.results[3] = Pending
    /\ fs[batch.scenes[3]] = Holds(Fox, "ok")

\* The word tokens of a text, as places: <<i, j>> is a maximal run of word
\* characters.
Occurrences(t) ==
    LET starts == {i \in 1..Len(t) : IsWordChar(t[i]) /\ (i = 1 \/ ~IsWordChar(t[i - 1]))}
        ends == {j \in 1..Len(t) : IsWordChar(t[j]) /\ (j = Len(t) \/ ~IsWordChar(t[j + 1]))}
    IN  {o \in starts \X ends :
            /\ o[1] <= o[2]
            /\ \A j \in ends : j < o[1] \/ j >= o[2]}

TokenAt(t, o) == Lower(SubSeq(t, o[1], o[2]))

\* the occurrences that count: not a stopword, three characters or more
Counted(t) ==
    {o \in Occurrences(t) : TokenAt(t, o) \notin {the_, and_} /\ Len(TokenAt(t, o)) >= 3}

\* C21: the keys of frequency are exactly the lowercased tokens of the text
\* that are no stopword and have three characters or more, each mapped to the
\* number of its occurrences whatever their letter case; for the text
\* "the quick and the fox" the keys exclude "the" and "and", and "fox" has
\* count 1.
C21_FrequencyCountsTokens ==
    txt.out.kind = "value" =>
        LET t == txt.text
            f == txt.out.val.frequency
        IN  /\ DOMAIN f = {TokenAt(t, o) : o \in Counted(t)}
            /\ \A w \in DOMAIN f :
                   f[w] = Cardinality({o \in Counted(t) : TokenAt(t, o) = w})
            /\ t = Example =>
                   the_ \notin DOMAIN f /\ and_ \notin DOMAIN f /\ f[fox_] = 1

\* the example text has been analysed, and so has a text with "fox" in two
\* letter cases
C21_Witness ==
    /\ txt.out.kind = "value"
    /\ txt.text = Example \o <<" ">> \o <<"F", "o", "x">>
    /\ txt.out.val.frequency[fox_] = 2
    /\ DOMAIN txt.out.val.frequency = {fox_, <<"q", "u", "i", "c", "k">>}

\* what a line contributes by the description: nothing without the marker,
\* else what follows the first marker and the separators after it, trimmed,
\* unless that is empty
RECURSIVE TasksByDescription(_)
TasksByDescription(lines) ==
    IF lines = <<>> THEN <<>>
    ELSE LET line == Head(lines)
             markers == {i \in 1..Len(line) :
                            i + 3 <= Len(line) /\ Lower(SubSeq(line, i, i + 3)) = todo_}
             first == CHOOSE i \in markers : \A j \in markers : i <= j
             task == Strip(SkipSeps(SubSeq(line, first + 4, Len(line))))
         IN  (IF markers # {} /\ task # <<>> THEN <<task>> ELSE <<>>)
                 \o TasksByDescription(Tail(lines))

\* C22: todos holds, in line order and at most one per line, for every line
\* with the marker TODO in any letter case, the rest of the line after the
\* marker and the ':', '-' and whitespace characters following it, trimmed;
\* a line where nothing, or only such separators, follows the marker gives no
\* entry.
C22_TodosAreTrimmedRemainders ==
    txt.out.kind = "value" =>
        txt.out.val.todos = TasksByDescription(SplitLines(txt.text, 1, <<>>))

\* where a counted token is first met in the text
FirstPlace(t, w) ==
    LET at == {o[1] : o \in {c \in Counted(t) : TokenAt(t, c) = w}}
    IN  CHOOSE i \in at : \A j \in at : i <= j

\* C23: top_words lists min(N, number of keys of frequency) distinct keys of
\* frequency in non-increasing order of frequency; of two keys of equal
\* frequency the one first met in the text comes first, and no key left out has
\* a higher frequency than a listed one.
C23_TopWordsOrdered ==
    txt.out.kind = "value" =>
        LET t == txt.text
            f == txt.out.val.frequency
            tw == txt.out.val.top_words
            n == Cardinality(DOMAIN f)
        IN  /\ Len(tw) = (IF TopWordsCount <= n THEN TopWordsCount ELSE n)
            /\ \A i \in 1..Len(tw) : tw[i] \in DOMAIN f
            /\ \A i, j \in 1..Len(tw) :
                   i < j => /\ tw[i] # tw[j]
                            /\ f[tw[i]] >= f[tw[j]]
                            /\ f[tw[i]] = f[tw[j]] => FirstPlace(t, tw[i]) < FirstPlace(t, tw[j])
            /\ \A w \in DOMAIN f :
                   (\A i \in 1..Len(tw) : tw[i] # w) => \A i \in 1..Len(tw) : f[w] <= f[tw[i]]

\* six keys, the fifth of them met twice: it is listed first, the others in the
\* order of the text, and the sixth is left out
C23_Witness ==
    /\ txt.out.kind = "value"
    /\ txt.text = SixWords \o tax_
    /\ Cardinality(DOMAIN txt.out.val.frequency) = 6
    /\ txt.out.val.top_words =
           <<tax_, fox_, <<"d", "o", "t">>, <<"t", "o", "t">>, <<"o", "a", "t">>>>

\* C24: while workers call put at the same time on a cache of capacity >= 1,
\* the cache never has more than capacity entries, in any state another
\* worker can see, between the steps of a put included.
C24_SizeWithinCapacityAtAllTimes == Len(cache) <= capacity

\* C25: analyze_scene(file, use_cache=False) never looks an entry up and
\* never stores one: at every step of the call, and when it has returned, the
\* cache is as it was when the call began, also when it holds an entry for the
\* file's digest; a result it returns is the analysis of the bytes the file
\* holds.
C25_NoCacheCallLeavesCache ==
    LET r == wk[Client]
    IN  (r.prog = "analyze" /\ ~r.use_cache) =>
            /\ cache = r.cache0
            /\ ~r.didGet /\ ~r.didPut
            /\ r.pc \notin {"hash1", "hash2", "get_in", "put_in"}
            /\ (r.pc = "done" /\ r.out.kind = "value") =>
                   /\ fs[r.file].exists
                   /\ Decodable(fs[r.file].data)
                   /\ r.out.val = AnalysisOfFile(r.file)

\* a call without the cache has returned a result while the cache holds an
\* entry for the digest of the file
C25_Witness ==
    LET r == wk[Client]
    IN  /\ AnalyzeDone(Client) /\ ~r.use_cache /\ r.out.kind = "value"
        /\ Has(cache, Sha256(fs[r.file].data))
        /\ Len(cache) = 2

\* C26: with cache_size 0, which validate_config accepts, no get, put or
\* clear raises; a put inserts its key and evicts it at once, so the cache is
\* empty whenever no operation is in progress, and every get returns None.
C26_CapacityZeroStaysEmpty ==
    LET r == wk[Client]
    IN  capacity = 0 =>
            /\ validate_config(configs[self_config])
            /\ configs[self_config].cache_size = 0
            /\ r.out.kind # "raise"
            /\ Completed(Client) => cache = <<>>
            /\ (r.prog = "get" /\ r.pc = "done") => r.out = ReturnedNone
            /\ r.pc # "put_mte"
            /\ r.pc \in {"put_len", "put_pop"} => cache = <<[key |-> r.key, val |-> r.val]>>
            /\ r.pc \notin {"put_len", "put_pop"} => cache = <<>>

\* after an earlier operation, a put has completed on a cache of capacity 0
C26_Witness ==
    /\ capacity = 0
    /\ wk[Client].pc = "done" /\ wk[Client].prog = "put"
    /\ scen # 0
    /\ wk[Client].out = ReturnedNone
    /\ cache = <<>>

\* C27: when a sequential analyze_scene call has ended without a result, by
\* returning None or by raising, the cache is what it was when the call
\* began: same entries, same values, same order.
C27_FailedCallLeavesCache ==
    LET r == wk[Client]
    IN  (AnalyzeDone(Client) /\ r.out.kind \in {"none", "raise"}) =>
            /\ cache = r.cache0
            /\ ~r.didPut

\* a call with the cache has looked its digest up in a full cache, missed,
\* and returned None
C27_Witness ==
    LET r == wk[Client]
    IN  /\ AnalyzeDone(Client) /\ r.use_cache /\ r.didGet
        /\ r.out = ReturnedNone
        /\ Len(cache) = 2

\* C28: whatever analyses and direct get_word_frequency calls came before,
\* and whatever the caller did to the values they returned, a call returns
\* what it returns without the memoization: the Counter computed from the
\* text, and the results built from it.
C28_MemoizationIsTransparent ==
    txt.out.kind = "value" =>
        IF "counter" \in DOMAIN txt.out.val
        THEN txt.out.val.counter = get_word_frequency(txt.text)
        ELSE txt.out.val = Analysis(txt.text)

\* what C29 says of a state of batch_compile
AttemptsAsDescribed ==
    LET n == Len(comp.log)
        last == comp.log[n]
        failed(o) == o.kind = "raise" \/ (o.kind = "files" /\ ~Success(o))
    IN  /\ n <= comp.retries + 1
        \* an attempt is followed by another only when it failed
        /\ \A i \in 1..(n - 1) : failed(comp.log[i])
        /\ (comp.pc = "loop" /\ n >= 1) => failed(last)
        /\ (n >= 1 /\ n <= comp.retries /\ failed(last)) => comp.pc = "loop"
        /\ (comp.pc = "done" /\ n >= 1) =>
              /\ Success(last) <=> comp.out = Returned([success |-> TRUE, files |-> last.files])
              /\ comp.out.kind = "value" /\ comp.out.val.success => Success(last)
              /\ comp.out = Raised("CompilationError") <=>
                     (last.kind = "raise" /\ n = comp.retries + 1)
              /\ (last.kind = "files" /\ ~Success(last) /\ n = comp.retries + 1) <=>
                     (comp.out.kind = "value" /\ ~comp.out.val.success)

\* C29: batch_compile makes at most retries + 1 attempts and ends: it returns
\* (True, the files of that attempt) at the first attempt that succeeds,
\* tries again after an attempt that raised CompilationError or reported no
\* success, raises CompilationError only when the last attempt raised it, and
\* returns (False, list) when the last attempt reported no success.
C29_BatchCompileRetriesAndEnds ==
    /\ []AttemptsAsDescribed
    /\ (comp.pc = "loop") ~> (comp.pc = "done")

\* with retries = 2, the first attempt raised, the second reported no success
\* and the third made both files
C29_Witness ==
    /\ comp.pc = "done" /\ comp.retries = 2
    /\ comp.log = <<CompilationError, Files_(<<>>), Files_(<<"docx", "pdf">>)>>
    /\ comp.out = Returned([success |-> TRUE, files |-> <<"docx", "pdf">>])

\* the steps of a run were begun in this order
StepsOf(tr) == [i \in 1..Len(tr) |-> tr[i].step]
IsPrefix(s, t) == Len(s) <= Len(t) /\ \A i \in 1..Len(s) : s[i] = t[i]
Began(step) == \E i \in 1..Len(run.trace) : run.trace[i].step = step
Succeeded(step) == \E i \in 1..Len(run.trace) : run.trace[i].step = step /\ run.trace[i].ok

\* C30: run performs setup, scan, scene analysis, outline generation, outline
\* save and compilation in this order and stops at the first step that
\* fails; with report_only it neither analyses nor compiles and still saves
\* the outline, with no_compile it analyses and saves the outline and never
\* compiles, and compilation never starts before the outline is saved.
C30_RunStepsInOrder ==
    LET tr == run.trace
        all == <<"setup", "scan">> \o (IF run.report_only THEN <<>> ELSE <<"analyze">>)
                   \o <<"outline", "save">>
                   \o (IF run.report_only \/ run.no_compile THEN <<>> ELSE <<"compile">>)
    IN  /\ IsPrefix(StepsOf(tr), all)
        /\ \A i \in 1..(Len(tr) - 1) : tr[i].ok
        /\ run.pc = "done" =>
              /\ run.out.kind = "raise" <=> ~tr[Len(tr)].ok
              /\ run.out = ReturnedNone <=> (StepsOf(tr) = all /\ tr[Len(tr)].ok)
        /\ run.report_only => ~Began("analyze") /\ ~Began("compile") /\ comp.pc = "idle"
        /\ run.no_compile => ~Began("compile") /\ comp.pc = "idle"
        /\ (run.pc = "done" /\ run.out = ReturnedNone) =>
              /\ Succeeded("save")
              /\ ~run.report_only => Succeeded("analyze")
        /\ (Began("compile") \/ comp.pc # "idle") => Succeeded("save")

\* a run with report_only has ended well: it scanned and saved the outline,
\* and neither analysed nor compiled
C30_Witness ==
    /\ run.pc = "done" /\ run.report_only /\ ~run.no_compile
    /\ run.out = ReturnedNone
    /\ StepsOf(run.trace) = <<"setup", "scan", "outline", "save">>
    /\ comp.pc = "idle"

====
